---- MODULE Spec2Model ----
(***************************************************************************)
(* A model of src/src/lib/number-converter.ts: the conversion between      *)
(* shorthand notation ("$1.5K"), a numeric value, a compact shorthand      *)
(* string and an English spelling.                                         *)
(*                                                                         *)
(* Strings of characters are sequences of one-character strings.  Strings  *)
(* of words are sequences of tokens: a word, " " or "-".                   *)
(*                                                                         *)
(* A number is a record [kind, neg, int, frac]: kind "num", the sign bit,  *)
(* the integer part as base-1000 chunks (least significant first, no       *)
(* leading zero chunk) and the decimal digits after the point (no trailing *)
(* zero).  TLC's integers are 32 bits wide and the program's values reach  *)
(* 10^15, hence the chunks.  NaN and null are records of their own kind.   *)
(* Arithmetic on these records is exact decimal arithmetic; the numbers    *)
(* SpecNum draws are integers up to MAX_SAFE_INTEGER and halves, on which  *)
(* IEEE doubles are exact as well.                                         *)
(***************************************************************************)
EXTENDS Integers, Sequences, FiniteSets, TLC

VARIABLES input, arg, pc, result, parsed, cur, words, short, back

vars == <<input, arg, pc, result, parsed, cur, words, short, back>>

\* ------------------------------------------------------------- bounds

\* Longest input string drawn over Alphabet.
MaxLen == 4

\* Most base-1000 chunks of a number drawn by SpecNum.
MaxChunks == 6

\* ------------------------------------------------------------ strings

DigitChars == <<"0", "1", "2", "3", "4", "5", "6", "7", "8", "9">>

IsDigit(c) == \E i \in 1..10 : DigitChars[i] = c

DigitVal(c) == (CHOOSE i \in 1..10 : DigitChars[i] = c) - 1

SuffixChars == {"K", "M", "B", "T", "k", "m", "b", "t"}

Contains(s, c) == \E i \in 1..Len(s) : s[i] = c

RECURSIVE StripLeft(_)
StripLeft(s) ==
    IF s # <<>> /\ Head(s) = " " THEN StripLeft(Tail(s)) ELSE s

RECURSIVE StripRight(_)
StripRight(s) ==
    IF s # <<>> /\ s[Len(s)] = " " THEN StripRight(SubSeq(s, 1, Len(s) - 1)) ELSE s

\* String.prototype.trim
Trim(s) == StripRight(StripLeft(s))

\* Length of the longest prefix of s made of digits.
RECURSIVE DigitRun(_)
DigitRun(s) ==
    IF s # <<>> /\ IsDigit(Head(s)) THEN 1 + DigitRun(Tail(s)) ELSE 0

Drop(s, n) == SubSeq(s, n + 1, Len(s))

Take(s, n) == SubSeq(s, 1, n)

\* ------------------------------------------------------------ numbers

NaN == [kind |-> "NaN"]

null == [kind |-> "null"]

MkNum(neg, int, frac) == [kind |-> "num", neg |-> neg, int |-> int, frac |-> frac]

isNaN(x) == x.kind = "NaN"

IsZero(x) == x.int = <<>> /\ x.frac = <<>>

\* x < 0 (false of -0)
IsNegative(x) == x.neg /\ ~IsZero(x)

\* x > 0
IsPositive(x) == ~x.neg /\ ~IsZero(x)

IsInteger(x) == x.frac = <<>>

\* x === y on numbers (-0 === 0)
NumEq(x, y) ==
    /\ x.int = y.int
    /\ x.frac = y.frac
    /\ (IsZero(x) \/ x.neg = y.neg)

Negate(x) == MkNum(~x.neg, x.int, x.frac)

Abs(x) == MkNum(FALSE, x.int, x.frac)

RECURSIVE StripHighZeros(_)
StripHighZeros(chunks) ==
    IF chunks # <<>> /\ chunks[Len(chunks)] = 0
    THEN StripHighZeros(SubSeq(chunks, 1, Len(chunks) - 1))
    ELSE chunks

RECURSIVE StripTrailingZeros(_)
StripTrailingZeros(ds) ==
    IF ds # <<>> /\ ds[Len(ds)] = 0
    THEN StripTrailingZeros(SubSeq(ds, 1, Len(ds) - 1))
    ELSE ds

\* The base-1000 chunks (least significant first) of a sequence of decimal
\* digits (most significant first).
RECURSIVE DigitsToChunks(_)
DigitsToChunks(ds) ==
    IF ds = <<>> THEN <<>>
    ELSE IF Len(ds) = 1 THEN <<ds[1]>>
    ELSE IF Len(ds) = 2 THEN <<10 * ds[1] + ds[2]>>
    ELSE LET n == Len(ds)
         IN  <<100 * ds[n - 2] + 10 * ds[n - 1] + ds[n]>>
                 \o DigitsToChunks(SubSeq(ds, 1, n - 3))

ChunkDigits(c) == <<c \div 100, (c \div 10) % 10, c % 10>>

RECURSIVE PadRight(_, _)
PadRight(ds, n) == IF Len(ds) >= n THEN ds ELSE PadRight(ds \o <<0>>, n)

\* x * 1000^k, exactly: the decimal point moves 3k digits to the right.
MulPow1000(x, k) ==
    LET padded == PadRight(x.frac, 3 * k)
        moved  == DigitsToChunks(Take(padded, 3 * k))
    IN  MkNum(x.neg,
              StripHighZeros(moved \o x.int),
              StripTrailingZeros(Drop(padded, 3 * k)))

\* parseFloat on a string of digits, '.', '-' and suffix letters: an optional
\* sign, then digits with an optional fraction, or '.' and digits; the longest
\* such prefix is the number and what follows it is ignored.  NaN when the
\* string has no such prefix.
parseFloat(s) ==
    LET neg  == s # <<>> /\ Head(s) = "-"
        body == IF neg THEN Tail(s) ELSE s
        n1   == DigitRun(body)
        rest == Drop(body, n1)
        dot  == rest # <<>> /\ Head(rest) = "."
        n2   == IF dot THEN DigitRun(Tail(rest)) ELSE 0
        ints == [i \in 1..n1 |-> DigitVal(body[i])]
        fras == [i \in 1..n2 |-> DigitVal(rest[i + 1])]
    IN  IF n1 = 0 /\ n2 = 0 THEN NaN
        ELSE MkNum(neg,
                   StripHighZeros(DigitsToChunks(ints)),
                   StripTrailingZeros(fras))

\* ------------------------------------------------------------- tables

\* JavaScript's undefined; concatenated into a string it reads "undefined".
undefined == "undefined"

\* The own keys of CURRENCY_MAP in insertion order, each with its word.
CURRENCY_MAP ==
    << <<"$", "dollars">>, <<"€", "euros">>, <<"£", "pounds">>, <<"¥", "yen">>,
       <<"₹", "rupees">>, <<"₽", "rubles">>, <<"₩", "won">>, <<"¢", "cents">> >>

CurrencyWord(symbol) ==
    IF \E i \in 1..Len(CURRENCY_MAP) : CURRENCY_MAP[i][1] = symbol
    THEN CURRENCY_MAP[CHOOSE i \in 1..Len(CURRENCY_MAP) : CURRENCY_MAP[i][1] = symbol][2]
    ELSE undefined

ONES == <<"", "one", "two", "three", "four", "five", "six", "seven", "eight", "nine">>

TEENS == <<"ten", "eleven", "twelve", "thirteen", "fourteen", "fifteen", "sixteen",
           "seventeen", "eighteen", "nineteen">>

TENS == <<"", "", "twenty", "thirty", "forty", "fifty", "sixty", "seventy", "eighty",
          "ninety">>

SCALES == <<"", "thousand", "million", "billion", "trillion">>

\* table[index] of a JavaScript array: undefined when the index is not an
\* integer or lies outside the array.
At(table, i, isInt) ==
    IF isInt /\ i + 1 \in 1..Len(table) THEN table[i + 1] ELSE undefined

\* result += word, on a string of tokens: the empty word adds nothing.
Tok(word) == IF word = "" THEN <<>> ELSE <<word>>

\* ------------------------------------------------------ numberToWords

\* num is a value 0 <= num < 1000: [i |-> its integer part, f |-> the decimal
\* digits after the point].
convertHundreds(num) ==
    LET hundreds == num.i >= 100
        r1 == IF hundreds
              THEN Tok(At(ONES, num.i \div 100, TRUE)) \o <<" ", "hundred">>
              ELSE <<>>
        n1 == IF hundreds THEN num.i % 100 ELSE num.i
        r2 == IF hundreds /\ (n1 > 0 \/ num.f # <<>>) THEN r1 \o <<" ">> ELSE r1
        isInt == num.f = <<>>
    IN  IF n1 >= 20
        THEN LET r3 == r2 \o Tok(At(TENS, n1 \div 10, TRUE))
                 n2 == n1 % 10
             IN  IF n2 > 0 \/ ~isInt
                 THEN r3 \o <<"-">> \o Tok(At(ONES, n2, isInt))
                 ELSE r3
        ELSE IF n1 >= 10
        THEN r2 \o Tok(At(TEENS, n1 - 10, isInt))
        ELSE IF n1 > 0 \/ ~isInt
        THEN r2 \o Tok(At(ONES, n1, isInt))
        ELSE r2

\* parts.join(' ')
RECURSIVE Join(_)
Join(parts) ==
    IF parts = <<>> THEN <<>>
    ELSE IF Len(parts) = 1 THEN parts[1]
    ELSE parts[1] \o <<" ">> \o Join(Tail(parts))

\* A plausible slip: a chunk of zero is not skipped.
RECURSIVE WordsLoopKeepsZeroChunks(_, _, _)
WordsLoopKeepsZeroChunks(n, scaleIndex, parts) ==
    IF ~IsPositive(n) THEN parts
    ELSE LET chunk == [i |-> IF n.int = <<>> THEN 0 ELSE n.int[1], f |-> n.frac]
             chunkWords == convertHundreds(chunk)
             parts1 ==
                 IF scaleIndex > 0
                 THEN <<chunkWords \o <<" ">> \o Tok(At(SCALES, scaleIndex, TRUE))>> \o parts
                 ELSE <<chunkWords>> \o parts
             next == MkNum(FALSE, IF n.int = <<>> THEN <<>> ELSE Tail(n.int), <<>>)
         IN  WordsLoopKeepsZeroChunks(next, scaleIndex + 1, parts1)

\* The while loop of numberToWords, from the state (num, scaleIndex, parts)
\* to the parts it ends with.
RECURSIVE WordsLoop(_, _, _)
WordsLoop(n, scaleIndex, parts) ==
    IF ~IsPositive(n) THEN parts
    ELSE LET chunk == [i |-> IF n.int = <<>> THEN 0 ELSE n.int[1], f |-> n.frac]
             chunkWords == convertHundreds(chunk)
             parts1 ==
                 IF chunk.i > 0 \/ chunk.f # <<>>
                 THEN IF scaleIndex > 0
                      THEN <<chunkWords \o <<" ">> \o Tok(At(SCALES, scaleIndex, TRUE))>>
                               \o parts
                      ELSE <<chunkWords>> \o parts
                 ELSE parts
             next == MkNum(FALSE, IF n.int = <<>> THEN <<>> ELSE Tail(n.int), <<>>)
         IN  WordsLoop(next, scaleIndex + 1, parts1)

numberToWords(n) ==
    IF IsZero(n) THEN <<"zero">>
    ELSE IF IsNegative(n)
    THEN <<"negative", " ">> \o Join(WordsLoop(Negate(n), 0, <<>>))
    ELSE Join(WordsLoop(n, 0, <<>>))

\* ----------------------------------------------------- parseShorthand

\* A plausible slip: the minus sign survives the cleaning.
CleanShorthandKeepsMinus(s) ==
    SelectSeq(s, LAMBDA c : IsDigit(c) \/ c = "." \/ c = "-" \/ c \in SuffixChars)

\* input.replace(/[^0-9.KMBTkmbt]/g, '')
CleanShorthand(s) ==
    SelectSeq(s, LAMBDA c : IsDigit(c) \/ c = "." \/ c \in SuffixChars)

\* A plausible variant: a period must be followed by a digit, (\d+(\.\d+)?).
MatchShorthandStrict(clean) ==
    LET n1     == DigitRun(clean)
        rest1  == Drop(clean, n1)
        n2     == IF rest1 # <<>> /\ Head(rest1) = "." THEN DigitRun(Tail(rest1)) ELSE 0
        dot    == IF n2 > 0 THEN 1 ELSE 0
        rest3  == Drop(rest1, dot + n2)
        hasSuf == rest3 # <<>> /\ Head(rest3) \in SuffixChars
        rest4  == IF hasSuf THEN Tail(rest3) ELSE rest3
    IN  IF n1 >= 1 /\ rest4 = <<>>
        THEN [kind |-> "match",
              numberPart |-> Take(clean, n1 + dot + n2),
              suffix |-> IF hasSuf THEN Head(rest3) ELSE ""]
        ELSE null

\* cleanInput.match(/^(\d+\.?\d*)([KMBTkmbt]?)$/): null, or the two groups.
MatchShorthand(clean) ==
    LET n1     == DigitRun(clean)
        rest1  == Drop(clean, n1)
        dot    == IF rest1 # <<>> /\ Head(rest1) = "." THEN 1 ELSE 0
        rest2  == Drop(rest1, dot)
        n2     == DigitRun(rest2)
        rest3  == Drop(rest2, n2)
        hasSuf == rest3 # <<>> /\ Head(rest3) \in SuffixChars
        rest4  == IF hasSuf THEN Tail(rest3) ELSE rest3
    IN  IF n1 >= 1 /\ rest4 = <<>>
        THEN [kind |-> "match",
              numberPart |-> Take(clean, n1 + dot + n2),
              suffix |-> IF hasSuf THEN Head(rest3) ELSE ""]
        ELSE null

\* A plausible slip: a billion written with six zeros.
MultiplierShortBillion(suffix) ==
    IF suffix \in {"k", "K"} THEN 1
    ELSE IF suffix \in {"m", "M"} THEN 2
    ELSE IF suffix \in {"b", "B"} THEN 2
    ELSE IF suffix \in {"t", "T"} THEN 4
    ELSE 0

\* multipliers[suffix] || 1, as the power k of the multiplier 1000^k.
Multiplier(suffix) ==
    IF suffix \in {"k", "K"} THEN 1
    ELSE IF suffix \in {"m", "M"} THEN 2
    ELSE IF suffix \in {"b", "B"} THEN 3
    ELSE IF suffix \in {"t", "T"} THEN 4
    ELSE 0

parseShorthand(s) ==
    LET match == MatchShorthand(CleanShorthand(s))
    IN  IF match = null THEN null
        ELSE LET baseNumber == parseFloat(match.numberPart)
             IN  IF isNaN(baseNumber) THEN null
                 ELSE MulPow1000(baseNumber, Multiplier(match.suffix))

\* -------------------------------------------------- numberToShorthand

\* The decimal digit characters of a natural number below 1000^3.
RECURSIVE NatChars(_)
NatChars(n) ==
    IF n < 10 THEN <<DigitChars[n + 1]>>
    ELSE NatChars(n \div 10) \o <<DigitChars[(n % 10) + 1]>>

DigitsChars(ds) == [i \in 1..Len(ds) |-> DigitChars[ds[i] + 1]]

\* The decimal digit characters of an integer given by its chunks.
RECURSIVE IntChars(_)
IntChars(chunks) ==
    IF chunks = <<>> THEN <<"0">>
    ELSE IF Len(chunks) = 1 THEN NatChars(chunks[1])
    ELSE IntChars(Tail(chunks)) \o DigitsChars(ChunkDigits(chunks[1]))

\* chunks + 1
RECURSIVE Inc(_)
Inc(chunks) ==
    IF chunks = <<>> THEN <<1>>
    ELSE IF chunks[1] < 999 THEN <<chunks[1] + 1>> \o Tail(chunks)
    ELSE <<0>> \o Inc(Tail(chunks))

\* The value of an integer of at most three chunks.
RECURSIVE IntVal(_)
IntVal(chunks) ==
    IF chunks = <<>> THEN 0 ELSE chunks[1] + 1000 * IntVal(Tail(chunks))

RECURSIVE Log2(_)
Log2(n) == IF n < 2 THEN 0 ELSE 1 + Log2(n \div 2)

\* The remainder, in twentieths, that is left of r/20 after `bits` binary digits.
RECURSIVE RemainderAfter(_, _)
RemainderAfter(r, bits) ==
    IF bits = 0 \/ r = 0 THEN r ELSE RemainderAfter((2 * r) % 20, bits - 1)

\* Whether the double nearest to ip + t/20 (ip >= 1, 0 < t < 20) is at or above
\* it: the 53-bit significand keeps 52 - Log2(ip) binary digits after the
\* point, and what is left of t/20 after them decides the rounding.
DoubleNotBelow(ip, t) ==
    LET left == RemainderAfter(t, 52 - Log2(ip))
    IN  left = 0 \/ left > 10

\* Number.prototype.toFixed(digits), digits 0 or 1, on the value with integer
\* part ip (chunks, >= 1) and the decimal digits fd after the point: the
\* decimal nearest to the double, the larger one on a tie.
toFixed(ip, fd, digits) ==
    LET kept == Take(PadRight(fd, digits), digits)
        rest == StripTrailingZeros(Drop(fd, digits))
        tie  == rest = <<5>>
        t    == IF digits = 1 THEN 2 * kept[1] + 1 ELSE 10
        up   == /\ rest # <<>>
                /\ \/ rest[1] > 5
                   \/ rest[1] = 5 /\ Len(rest) > 1
                   \/ tie /\ DoubleNotBelow(IntVal(ip), t)
        carry == up /\ (digits = 0 \/ kept[1] = 9)
        ip1  == IF carry THEN Inc(ip) ELSE ip
        fd1  == IF digits = 0 THEN <<>>
                ELSE IF ~up THEN kept
                ELSE IF kept[1] = 9 THEN <<0>>
                ELSE <<kept[1] + 1>>
    IN  IntChars(ip1) \o (IF digits = 0 THEN <<>> ELSE <<".">> \o DigitsChars(fd1))

\* absNum >= 1000^k
AtLeastPow1000(absNum, k) == Len(absNum.int) >= k + 1

\* absNum % 1000^k === 0
MultipleOfPow1000(absNum, k) ==
    /\ absNum.frac = <<>>
    /\ \A i \in 1..k : i <= Len(absNum.int) => absNum.int[i] = 0

\* The decimal digits after the point of absNum / 1000^k, for absNum >= 1000^k.
RECURSIVE QuotientFrac(_, _)
QuotientFrac(absNum, k) ==
    IF k = 0 THEN absNum.frac
    ELSE ChunkDigits(absNum.int[k]) \o QuotientFrac(absNum, k - 1)

\* A plausible slip: one decimal always, (absNum / 1000^k).toFixed(1).
ScaledFixedOneDecimal(absNum, k) ==
    toFixed(Drop(absNum.int, k), StripTrailingZeros(QuotientFrac(absNum, k)), 1)

\* (absNum / 1000^k).toFixed(absNum % 1000^k === 0 ? 0 : 1)
ScaledFixed(absNum, k) ==
    toFixed(Drop(absNum.int, k),
            StripTrailingZeros(QuotientFrac(absNum, k)),
            IF MultipleOfPow1000(absNum, k) THEN 0 ELSE 1)

\* num.toString() for |num| < 1000 and |num| >= 1e-6
toString(x) ==
    (IF IsNegative(x) THEN <<"-">> ELSE <<>>)
        \o IntChars(x.int)
        \o (IF x.frac = <<>> THEN <<>> ELSE <<".">> \o DigitsChars(x.frac))

numberToShorthand(x) ==
    IF IsZero(x) THEN <<"0">>
    ELSE LET absNum == Abs(x)
             sign   == IF IsNegative(x) THEN <<"-">> ELSE <<>>
         IN  IF AtLeastPow1000(absNum, 4) THEN sign \o ScaledFixed(absNum, 4) \o <<"T">>
             ELSE IF AtLeastPow1000(absNum, 3) THEN sign \o ScaledFixed(absNum, 3) \o <<"B">>
             ELSE IF AtLeastPow1000(absNum, 2) THEN sign \o ScaledFixed(absNum, 2) \o <<"M">>
             ELSE IF AtLeastPow1000(absNum, 1) THEN sign \o ScaledFixed(absNum, 1) \o <<"K">>
             ELSE toString(x)

\* ---------------------------------------------------- extractCurrency

\* The loop over Object.keys(CURRENCY_MAP) from the i-th key on.
RECURSIVE ScanCurrency(_, _)
ScanCurrency(s, i) ==
    IF i > Len(CURRENCY_MAP) THEN undefined
    ELSE IF Contains(s, CURRENCY_MAP[i][1]) THEN CURRENCY_MAP[i][1]
    ELSE ScanCurrency(s, i + 1)

\* A plausible slip: the symbol that comes first in the input wins.
extractCurrencyByPosition(s) ==
    LET at == {i \in 1..Len(s) : \E j \in 1..Len(CURRENCY_MAP) : CURRENCY_MAP[j][1] = s[i]}
    IN  IF at = {} THEN undefined
        ELSE s[CHOOSE i \in at : \A j \in at : i <= j]

extractCurrency(s) == ScanCurrency(s, 1)

\* ------------------------------------------------------ convertNumber

Zero == MkNum(FALSE, <<>>, <<>>)

\* trimmedInput.replace(/[^0-9.-]/g, '')
CleanPlain(s) == SelectSeq(s, LAMBDA c : IsDigit(c) \/ c = "." \/ c = "-")

\* The value convertNumber decodes from the trimmed input: parseShorthand's,
\* or the plain fallback's when that is null.
Decode(trimmedInput) ==
    LET numericValue == parseShorthand(trimmedInput)
    IN  IF numericValue = null THEN parseFloat(CleanPlain(trimmedInput))
        ELSE numericValue

\* The record returned for an input that is empty once trimmed.
EmptyResult(s) ==
    [originalInput |-> s, numericValue |-> Zero, shorthandForm |-> <<"0">>,
     wordsForm |-> <<"zero">>, currency |-> undefined, isValid |-> FALSE]

\* A plausible slip: the invalid record drops the detected currency.
InvalidResultNoCurrency(s, currency) ==
    [originalInput |-> s, numericValue |-> Zero, shorthandForm |-> <<"0">>,
     wordsForm |-> <<"invalid input">>, currency |-> undefined, isValid |-> FALSE]

\* The record returned when the decoded value is NaN.
InvalidResult(s, currency) ==
    [originalInput |-> s, numericValue |-> Zero, shorthandForm |-> <<"0">>,
     wordsForm |-> <<"invalid input">>, currency |-> currency, isValid |-> FALSE]

\* A plausible slip: the valid record echoes the trimmed input.
ValidResultTrimmed(s, currency, currencyWord, numericValue) ==
    [originalInput |-> Trim(s),
     numericValue |-> numericValue,
     shorthandForm |->
         IF currency # undefined
         THEN <<currency>> \o numberToShorthand(numericValue)
         ELSE numberToShorthand(numericValue),
     wordsForm |->
         IF currencyWord # undefined
         THEN numberToWords(numericValue) \o <<" ", currencyWord>>
         ELSE numberToWords(numericValue),
     currency |-> currency,
     isValid |-> TRUE]

\* The record returned for a decoded value.
ValidResult(s, currency, currencyWord, numericValue) ==
    [originalInput |-> s,
     numericValue |-> numericValue,
     shorthandForm |->
         IF currency # undefined
         THEN <<currency>> \o numberToShorthand(numericValue)
         ELSE numberToShorthand(numericValue),
     wordsForm |->
         IF currencyWord # undefined
         THEN numberToWords(numericValue) \o <<" ", currencyWord>>
         ELSE numberToWords(numericValue),
     currency |-> currency,
     isValid |-> TRUE]

convertNumber(s) ==
    LET trimmedInput == Trim(s)
        currency     == extractCurrency(trimmedInput)
        currencyWord == IF currency # undefined THEN CurrencyWord(currency) ELSE undefined
        numericValue == Decode(trimmedInput)
    IN  IF trimmedInput = <<>> THEN EmptyResult(s)
        ELSE IF isNaN(numericValue) THEN InvalidResult(s, currency)
        ELSE ValidResult(s, currency, currencyWord, numericValue)

\* ------------------------------------------------------ state machine

none == [kind |-> "none"]

\* The characters inputs are drawn over: digits, the period, suffix letters in
\* both cases, the minus sign, two currency symbols, white space and a letter
\* that is none of these.
Alphabet == {"0", "1", "5", ".", "K", "m", "-", "$", "€", " ", "a"}

\* The inputs the specification's examples name, beside the short strings.
Examples ==
    { <<"$", "1", ".", "5", "K">>,
      <<"-", "1", "5", "0", "0">>,
      <<"-", "1", ".", "5", "K">>,
      <<"1", "0", "0", "0", "T">>,
      <<"2", ".", "5", "M">>,
      <<"1", "5", "0", "0", ".", "5">>,
      <<"1", ".", "2", ".", "3">>,
      <<"-", "5", "K", "K">>,
      <<" ", "€", " ", "$", "2", "k", " ">>,
      <<"n", "o", "t", " ", "a", " ", "n", "u", "m", "b", "e", "r">>,
      <<"a", "b", "c">> }

Inputs == UNION {[1..k -> Alphabet] : k \in 0..MaxLen} \cup Examples

\* Number.MAX_SAFE_INTEGER, 2^53 - 1 = 9007199254740991, as chunks.
MAX_SAFE_INTEGER == <<991, 740, 254, 199, 7, 9>>

\* a <= b on integers given by their chunks
RECURSIVE ChunksLeq(_, _)
ChunksLeq(a, b) ==
    IF Len(a) # Len(b) THEN Len(a) < Len(b)
    ELSE IF a = <<>> THEN TRUE
    ELSE IF a[Len(a)] # b[Len(b)] THEN a[Len(a)] < b[Len(b)]
    ELSE ChunksLeq(SubSeq(a, 1, Len(a) - 1), SubSeq(b, 1, Len(b) - 1))

\* The chunk values numbers of several chunks are drawn over.
ChunkVals == {0, 1, 19, 450, 999}

\* The integers the specification's examples name: 1500 and 2500000.
ExampleChunks == {<<500, 1>>, <<0, 500, 2>>}

\* The numbers drawn: every integer below 1000, the integers up to
\* MAX_SAFE_INTEGER of at most MaxChunks chunks over ChunkVals, each with either
\* sign, and each below 10^15 also with a fraction of one half.
Numbers ==
    LET small == {<<>>} \cup {<<c>> : c \in 1..999}
        large == {c \in UNION {[1..k -> ChunkVals] : k \in 2..MaxChunks} :
                      c[Len(c)] # 0 /\ ChunksLeq(c, MAX_SAFE_INTEGER)}
                 \cup ExampleChunks
        half  == {c \in small \cup large : Len(c) <= 5}
    IN  {MkNum(neg, c, <<>>) : neg \in BOOLEAN, c \in small \cup large}
            \cup {MkNum(neg, c, <<5>>) : neg \in BOOLEAN, c \in half}

Init ==
    /\ input \in Inputs
    /\ arg = Zero
    /\ pc = "start"
    /\ result = none
    /\ parsed = none
    /\ cur = ""
    /\ words = <<>>
    /\ short = <<>>
    /\ back = none

InitNum ==
    /\ input = <<>>
    /\ arg \in Numbers
    /\ pc = "start"
    /\ result = none
    /\ parsed = none
    /\ cur = ""
    /\ words = <<>>
    /\ short = <<>>
    /\ back = none

\* A call convertNumber(input).
ConvertNumber ==
    /\ pc = "start"
    /\ result' = convertNumber(input)
    /\ pc' = "converted"
    /\ UNCHANGED <<input, arg, parsed, cur, words, short, back>>

\* A call parseShorthand(input).
ParseShorthand ==
    /\ pc = "start"
    /\ parsed' = parseShorthand(input)
    /\ pc' = "parsed"
    /\ UNCHANGED <<input, arg, result, cur, words, short, back>>

\* A call extractCurrency(input).
ExtractCurrency ==
    /\ pc = "start"
    /\ cur' = extractCurrency(input)
    /\ pc' = "extracted"
    /\ UNCHANGED <<input, arg, result, parsed, words, short, back>>

\* A call numberToWords(arg).
NumberToWords ==
    /\ pc = "start"
    /\ words' = numberToWords(arg)
    /\ pc' = "words"
    /\ UNCHANGED <<input, arg, result, parsed, cur, short, back>>

\* A call numberToShorthand(arg).
NumberToShorthand ==
    /\ pc = "start"
    /\ short' = numberToShorthand(arg)
    /\ pc' = "short"
    /\ UNCHANGED <<input, arg, result, parsed, cur, words, back>>

\* A call parseShorthand on the string numberToShorthand returned.
ParseBack ==
    /\ pc = "short"
    /\ back' = parseShorthand(short)
    /\ pc' = "back"
    /\ UNCHANGED <<input, arg, result, parsed, cur, words, short>>

Next == ConvertNumber \/ ParseShorthand \/ ExtractCurrency

NextNum == NumberToWords \/ NumberToShorthand \/ ParseBack

\* The functions that take a string, each called on every input.
Spec == Init /\ [][Next]_vars

\* The functions that take a number, each called on every number.
SpecNum == InitNum /\ [][NextNum]_vars

\* ------------------------------------------------------------- claims

Chars1500 == <<"$", "1", ".", "5", "K">>

\* The table positions of the currency symbols that occur in s.
SymbolsIn(s) == {i \in 1..Len(CURRENCY_MAP) : Contains(s, CURRENCY_MAP[i][1])}

\* The value is 0 and the shorthand form is "0".
IsZeroRecord(r) == IsZero(r.numericValue) /\ r.shorthandForm = <<"0">>

\* C1: an input from which no number is decoded gives isValid = false,
\* numericValue 0 and shorthandForm "0"; the words are "zero" and there is no
\* currency when the trimmed input is empty, and "invalid input" with the
\* detected currency when it is not empty and neither the shorthand parser nor
\* the plain fallback yields a number.
InvalidResultIsSentinel ==
    pc = "converted" =>
        LET t == Trim(input)
            noShorthand == parseShorthand(t) = null
            noPlain == isNaN(parseFloat(CleanPlain(t)))
        IN  /\ t = <<>> =>
                /\ ~result.isValid
                /\ IsZeroRecord(result)
                /\ result.wordsForm = <<"zero">>
                /\ result.currency = undefined
            /\ t # <<>> /\ noShorthand /\ noPlain =>
                /\ ~result.isValid
                /\ IsZeroRecord(result)
                /\ result.wordsForm = <<"invalid input">>
                /\ (SymbolsIn(t) = {} => result.currency = undefined)
                /\ (SymbolsIn(t) # {} => Contains(t, result.currency))
            /\ ~result.isValid => IsZeroRecord(result)

\* An invalid record that carries a currency: "$a".
InvalidWithCurrencyReached ==
    /\ pc = "converted"
    /\ ~result.isValid
    /\ result.wordsForm = <<"invalid input">>
    /\ result.currency = "$"

\* C2: isValid is true exactly when the trimmed input is not empty and a number
\* v is decoded, by parseShorthand or else by the plain fallback; then the
\* record holds v, the currency symbol (if any) followed by numberToShorthand(v),
\* numberToWords(v) followed by " " and the currency's word (if any), and the
\* input verbatim.  "$1.5K" gives 1500, "$1.5K", "one thousand five hundred
\* dollars", "$".
ValidResultIsComposed ==
    pc = "converted" =>
        LET t == Trim(input)
            p == parseShorthand(t)
            v == IF p = null THEN parseFloat(CleanPlain(t)) ELSE p
            c == result.currency
        IN  /\ result.isValid <=> (t # <<>> /\ ~isNaN(v))
            /\ result.isValid =>
                /\ result.numericValue = v
                /\ result.originalInput = input
                /\ (SymbolsIn(t) = {} <=> c = undefined)
                /\ c = undefined =>
                    /\ result.shorthandForm = numberToShorthand(v)
                    /\ result.wordsForm = numberToWords(v)
                /\ c # undefined =>
                    /\ Contains(t, c)
                    /\ result.shorthandForm = <<c>> \o numberToShorthand(v)
                    /\ result.wordsForm = numberToWords(v) \o <<" ", CurrencyWord(c)>>
            /\ input = Chars1500 =>
                /\ result.isValid
                /\ result.numericValue = MkNum(FALSE, <<500, 1>>, <<>>)
                /\ result.shorthandForm = Chars1500
                /\ result.wordsForm =
                       <<"one", " ", "thousand", " ", "five", " ", "hundred", " ", "dollars">>
                /\ result.currency = "$"

\* A valid record for an input with white space around it and a currency.
ValidUntrimmedReached ==
    /\ pc = "converted"
    /\ result.isValid
    /\ Trim(input) # input
    /\ result.currency = "$"
    /\ IsPositive(result.numericValue)

\* C7: extractCurrency returns the first symbol, in the table's order $, €, £,
\* ¥, ₹, ₽, ₩, ¢, that occurs anywhere in the input, wherever the symbols stand
\* in the input, and undefined when the input holds none of them.
CurrencyIsFirstInTableOrder ==
    pc = "extracted" =>
        IF SymbolsIn(input) = {} THEN cur = undefined
        ELSE \E i \in SymbolsIn(input) :
                 /\ \A j \in SymbolsIn(input) : i <= j
                 /\ cur = CURRENCY_MAP[i][1]

\* An input where € stands before $, and $ is returned.
LaterSymbolWinsReached ==
    /\ pc = "extracted"
    /\ cur = "$"
    /\ \E i, j \in 1..Len(input) : i < j /\ input[i] = "€" /\ input[j] = "$"
    /\ ~\E i, j \in 1..Len(input) : i < j /\ input[i] = "$" /\ input[j] = "€"

AllDigits(s, a, b) == \A i \in a..b : IsDigit(s[i])

\* s without its last character when that is a suffix letter.
Core(s) ==
    IF s # <<>> /\ s[Len(s)] \in SuffixChars THEN Take(s, Len(s) - 1) ELSE s

\* The power k of the magnitude 1000^k of the suffix letter s ends with.
Magnitude(s) ==
    IF s = <<>> THEN 0
    ELSE CASE s[Len(s)] \in {"K", "k"} -> 1
           [] s[Len(s)] \in {"M", "m"} -> 2
           [] s[Len(s)] \in {"B", "b"} -> 3
           [] s[Len(s)] \in {"T", "t"} -> 4
           [] OTHER -> 0

\* d is one or more digits, optionally followed by a period and at least
\* minFrac digits.
IsDecimal(d, minFrac) ==
    \E n1 \in 1..Len(d) :
        /\ AllDigits(d, 1, n1)
        /\ \/ n1 = Len(d)
           \/ /\ d[n1 + 1] = "."
              /\ Len(d) - (n1 + 1) >= minFrac
              /\ AllDigits(d, n1 + 2, Len(d))

\* The cleaned string is in the grammar: a decimal, then at most one suffix.
InGrammar(clean, minFrac) == IsDecimal(Core(clean), minFrac)

ParsesByGrammar(minFrac) ==
    pc = "parsed" =>
        LET clean == SelectSeq(input, LAMBDA c : IsDigit(c) \/ c = "." \/ c \in SuffixChars)
        IN  /\ parsed # null <=> InGrammar(clean, minFrac)
            /\ parsed # null =>
                   parsed = MulPow1000(parseFloat(Core(clean)), Magnitude(clean))
            /\ input = <<"2", ".", "5", "M">> => parsed = MkNum(FALSE, <<0, 500, 2>>, <<>>)
            /\ input = <<"1", "K">> => parsed = MkNum(FALSE, <<0, 1>>, <<>>)
            /\ input = <<"1", ".", "5">> => parsed = MkNum(FALSE, <<1>>, <<5>>)
            /\ input = <<"a", "b", "c">> => parsed = null

\* C3 as stated: parseShorthand returns a number if and only if the cleaned
\* string is one or more digits, optionally followed by '.' and digits,
\* optionally followed by one suffix letter; every other cleaned string yields
\* no-match.  The value is the decimal times the suffix's magnitude.
ParsesExactlyDigitsDotDigits == ParsesByGrammar(1)

\* C3 as amended: the period may also end the decimal with no digit after it
\* ("1." and "1.K" parse, as 1 and 1000).
ParsesDigitsDotOptionalDigits == ParsesByGrammar(0)

\* "1.K": a period with no digit after it, parsed as 1000.
TrailingPeriodParsedReached ==
    /\ pc = "parsed"
    /\ input = <<"1", ".", "K">>
    /\ parsed = MkNum(FALSE, <<0, 1>>, <<>>)

\* C8: parseShorthand never returns a negative number and a leading '-' does
\* not change what it returns; convertNumber yields a negative value only when
\* parseShorthand returns no-match, and every input whose cleaned form is in
\* the shorthand grammar, "-1500" included, decodes to a value that is not
\* negative.
SignIsLost ==
    /\ pc = "parsed" =>
        /\ parsed # null => ~IsNegative(parsed)
        /\ parseShorthand(<<"-">> \o input) = parsed
    /\ pc = "converted" =>
        LET t == Trim(input)
            clean == SelectSeq(t, LAMBDA c : IsDigit(c) \/ c = "." \/ c \in SuffixChars)
        IN  /\ IsNegative(result.numericValue) => parseShorthand(t) = null
            /\ InGrammar(clean, 0) => result.isValid /\ ~IsNegative(result.numericValue)
            /\ input = <<"-", "1", "5", "0", "0">> =>
                   result.numericValue = MkNum(FALSE, <<500, 1>>, <<>>)

\* "-1.5K" is decoded as 1500.
MinusDroppedReached ==
    /\ pc = "converted"
    /\ input = <<"-", "1", ".", "5", "K">>
    /\ result.isValid
    /\ result.numericValue = MkNum(FALSE, <<500, 1>>, <<>>)

\* ---- the functions of a number

\* The integer n is a multiple of the scale numberToShorthand applies to it:
\* 1000^k for the largest k <= 3 with 1000^k <= |n|.
MultipleOfItsScale(n) == \A i \in 1..(Len(n.int) - 1) : n.int[i] = 0

\* A call of parseShorthand on numberToShorthand(n) has returned, for an
\* integer n with |n| < 1e12 that is a multiple of its scale.
RoundTripCase ==
    /\ pc = "back"
    /\ IsInteger(arg)
    /\ Len(arg.int) <= 4
    /\ MultipleOfItsScale(arg)

\* C4 as stated: for every integer n with |n| < 1e12 that is a multiple of the
\* scale numberToShorthand applies to it, parseShorthand(numberToShorthand(n))
\* is n.
RoundTripOfEveryMultiple ==
    RoundTripCase => back # null /\ NumEq(back, arg)

\* C4 as amended: the round trip returns n for every such n >= 0, and |n| for
\* every such n < 0, whose '-' parseShorthand deletes.
RoundTripUpToSign ==
    RoundTripCase =>
        /\ back # null
        /\ ~IsNegative(arg) => NumEq(back, arg)
        /\ IsNegative(arg) => NumEq(back, Abs(arg)) /\ ~NumEq(back, arg)

\* 999000000000 goes to "999B" and back.
RoundTripReached ==
    /\ pc = "back"
    /\ arg = MkNum(FALSE, <<0, 0, 0, 999>>, <<>>)
    /\ short = <<"9", "9", "9", "B">>
    /\ back = arg

\* Whether the digits ds, read as 0.ds, are below ("lt"), at ("eq") or above
\* ("gt") one half.
HalfCmp(ds) ==
    LET d == StripTrailingZeros(ds)
    IN  IF d = <<>> \/ d[1] < 5 THEN "lt"
        ELSE IF d = <<5>> THEN "eq"
        ELSE "gt"

\* C5: numberToShorthand(n) of an integer n is "0" for 0 and the decimal string
\* of n for |n| < 1000; otherwise one '-' when n < 0, then |n| divided by the
\* largest of 1e12, 1e9, 1e6, 1e3 that is <= |n|, with no decimals when |n| is a
\* multiple of that scale and rounded to one decimal otherwise, then the scale's
\* letter.  1500 gives "1.5K", 1000 "1K", 999 "999", -2500000 "-2.5M".
ShorthandOfInteger ==
    (pc = "short" /\ IsInteger(arg)) =>
        LET a    == arg.int
            sign == IF arg.neg /\ a # <<>> THEN <<"-">> ELSE <<>>
            k    == IF Len(a) > 4 THEN 4 ELSE Len(a) - 1
            q    == Drop(a, k)
            fd   == QuotientFrac(Abs(arg), k)
            down == IntChars(q) \o <<".", DigitChars[fd[1] + 1]>>
            up   == IF fd[1] = 9 THEN IntChars(Inc(q)) \o <<".", "0">>
                    ELSE IntChars(q) \o <<".", DigitChars[fd[1] + 2]>>
            half == HalfCmp(Drop(fd, 1))
            tail == <<(<<"K", "M", "B", "T">>)[k]>>
        IN  /\ a = <<>> => short = <<"0">>
            /\ Len(a) = 1 => short = sign \o NatChars(a[1])
            /\ Len(a) > 1 =>
                IF \A i \in 1..k : a[i] = 0
                THEN short = sign \o IntChars(q) \o tail
                ELSE /\ half = "lt" => short = sign \o down \o tail
                     /\ half = "gt" => short = sign \o up \o tail
                     /\ half = "eq" => short \in {sign \o down \o tail, sign \o up \o tail}
            /\ arg = MkNum(FALSE, <<500, 1>>, <<>>) => short = <<"1", ".", "5", "K">>
            /\ arg = MkNum(FALSE, <<0, 1>>, <<>>) => short = <<"1", "K">>
            /\ arg = MkNum(FALSE, <<999>>, <<>>) => short = <<"9", "9", "9">>
            /\ arg = MkNum(TRUE, <<0, 500, 2>>, <<>>) => short = <<"-", "2", ".", "5", "M">>

\* -2500000 gives "-2.5M".
NegativeShorthandReached ==
    /\ pc = "short"
    /\ arg = MkNum(TRUE, <<0, 500, 2>>, <<>>)
    /\ short = <<"-", "2", ".", "5", "M">>

\* The spelling of 0 <= n < 100, nothing for 0.
SpellBelow100(n) ==
    IF n = 0 THEN <<>>
    ELSE IF n < 10 THEN <<ONES[n + 1]>>
    ELSE IF n < 20 THEN <<TEENS[n - 9]>>
    ELSE IF n % 10 = 0 THEN <<TENS[(n \div 10) + 1]>>
    ELSE <<TENS[(n \div 10) + 1], "-", ONES[(n % 10) + 1]>>

\* The spelling of 0 <= n < 1000, nothing for 0.
SpellBelow1000(n) ==
    IF n < 100 THEN SpellBelow100(n)
    ELSE IF n % 100 = 0 THEN <<ONES[(n \div 100) + 1], " ", "hundred">>
    ELSE <<ONES[(n \div 100) + 1], " ", "hundred", " ">> \o SpellBelow100(n % 100)

\* The spelling of the i lowest chunks: each chunk that is not zero with its
\* scale word, the most significant first, single spaces between.
RECURSIVE SpellChunks(_, _)
SpellChunks(chunks, i) ==
    IF i = 0 THEN <<>>
    ELSE LET lower == SpellChunks(chunks, i - 1)
             this  == IF chunks[i] = 0 THEN <<>>
                      ELSE IF i = 1 THEN SpellBelow1000(chunks[i])
                      ELSE SpellBelow1000(chunks[i]) \o <<" ", SCALES[i]>>
         IN  IF this = <<>> THEN lower
             ELSE IF lower = <<>> THEN this
             ELSE this \o <<" ">> \o lower

\* The reference spelling of an integer below 10^15 in absolute value.
Spell(n) ==
    IF IsZero(n) THEN <<"zero">>
    ELSE IF n.neg THEN <<"negative", " ">> \o SpellChunks(n.int, Len(n.int))
    ELSE SpellChunks(n.int, Len(n.int))

\* No space at either end and no two spaces in a row.
WellSpaced(w) ==
    /\ w # <<>>
    /\ w[1] # " "
    /\ w[Len(w)] # " "
    /\ \A i \in 1..(Len(w) - 1) : ~(w[i] = " " /\ w[i + 1] = " ")

\* C6: numberToWords(n) of an integer n with |n| < 10^15 is the reference
\* spelling: "zero", "negative " before the spelling of -n, the chunks that are
\* not zero by the hundreds/tens/ones rule with their scale words, the most
\* significant first, single spaces between, no space at either end.
WordsOfInteger ==
    (pc = "words" /\ IsInteger(arg) /\ Len(arg.int) <= 5) =>
        /\ words = Spell(arg)
        /\ WellSpaced(words)
        /\ arg = MkNum(TRUE, <<5>>, <<>>) => words = <<"negative", " ", "five">>
        /\ arg = MkNum(FALSE, <<142>>, <<>>) =>
               words = <<"one", " ", "hundred", " ", "forty", "-", "two">>
        /\ arg = MkNum(FALSE, <<0, 0, 1>>, <<>>) => words = <<"one", " ", "million">>
        /\ arg = MkNum(FALSE, <<1, 0, 0, 1>>, <<>>) => ~Contains(words, "thousand")

\* 1000000001 is spelled "one billion one".
ZeroChunksOmittedReached ==
    /\ pc = "words"
    /\ arg = MkNum(FALSE, <<1, 0, 0, 1>>, <<>>)
    /\ words = <<"one", " ", "billion", " ", "one">>

\* C9: for a positive value v that is not an integer, numberToWords(v) is
\* numberToWords of the integer part of v; the fraction adds no token.
WordsTruncateFraction ==
    (pc = "words" /\ IsPositive(arg) /\ ~IsInteger(arg)) =>
        words = numberToWords(MkNum(FALSE, arg.int, <<>>))

\* C10: for a positive integer, of 10^15 and above as well, every chunk that
\* is not zero has its scale word in the table (index 1..4), and the words hold
\* no undefined token.
ScaleWordAlwaysDefined ==
    (pc = "words" /\ IsPositive(arg) /\ IsInteger(arg)) =>
        /\ \A i \in 1..Len(arg.int) : arg.int[i] # 0 => i <= Len(SCALES)
        /\ ~Contains(words, undefined)

====
